---- MODULE Spec2Model ----
(***************************************************************************)
(* Model of the room-scoped realtime broker of class-interactor            *)
(* (src/src/server/server.ts).                                             *)
(*                                                                         *)
(* The durable store is PostgreSQL (the test pipeline's postgres:15 image, *)
(* server.ts:270-273) reached through knex; knex.transaction is called     *)
(* without an isolation level, so transactions run READ COMMITTED: a read  *)
(* sees the committed row, an update takes the row lock until commit.      *)
(* A handler runs on                                                       *)
(* the single event loop and suspends at every `await`; the model has one  *)
(* step for the moment a statement takes effect in the store and one step  *)
(* for the continuation that runs after the await (emits, acknowledgment). *)
(* A channel (socket.io namespace) name is modelled as the sequence of its *)
(* path segments: "/rooms/r1/admin" is <<"rooms","r1","admin">> and        *)
(* "/rooms/r1/" is <<"rooms","r1","">>.                                    *)
(***************************************************************************)
EXTENDS Integers, Sequences, FiniteSets, TLC

(* ------------------------------ bounds --------------------------------- *)
\* clients (connection slots) in one behaviour
MaxConns == 2
\* client events handled in one behaviour
MaxEvents == 3
\* client events handled in one behaviour of the lifecycle specification
MaxLifecycleEvents == 3
\* client events handled in one behaviour of the reaction specification
MaxReactionEvents == 1
\* client events handled in one behaviour of the question specification
MaxQuestionEvents == 2
\* client events handled in one behaviour of the authorizer specification
MaxAuthorizeEvents == 1
\* client events sent in one behaviour of the role specification
MaxRoleEvents == 2
\* client events handled in one behaviour of the board specification
MaxBoardEvents == 3
\* client events handled in one behaviour of the disconnect specification
MaxDisconnectEvents == 2
\* client events handled in one behaviour of the tally specification
MaxTallyEvents == 2

(* --------------------------- program constants ------------------------- *)
\* the labels of a new poll's tally, server.ts:111
Labels == {"A", "B", "C", "D", "E"}

\* upper bound of the reaction position, Math.floor(Math.random() * 100)
PositionRange == 100

\* the Room table: the core only reads it (server.ts:52-55, 76-79)
Room == { [id |-> 1, visibleId |-> "r1"], [id |-> 2, visibleId |-> "r2"] }

(* ------------------------------ inputs --------------------------------- *)
\* the falsy previous choice (absent)
NoChoice == ""

\* QuestionAsk payloads: the plain content, or content with extra fields
PlainAsk == [fields |-> {}, roomId |-> 0, votes |-> 0]
AskPayloads ==
  { PlainAsk,
    [fields |-> {"roomId"}, roomId |-> 2, votes |-> 0],
    [fields |-> {"votes"}, roomId |-> 0, votes |-> 5] }

\* positions the random draw is sampled from in the model
Positions == {0, PositionRange - 1}

(* --------------------------- JavaScript values ------------------------- *)
Num(n) == [t |-> "number", v |-> n]
NullV == [t |-> "null", v |-> 0]
NaNV == [t |-> "NaN", v |-> 0]

\* values[k] += d on a parsed JSON object: a missing key reads undefined and
\* undefined + d is NaN; null + d is d; NaN + d is NaN
JsAddAt(values, k, d) ==
  LET cell == IF k \in DOMAIN values
              THEN (IF values[k].t = "number" THEN Num(values[k].v + d)
                    ELSE IF values[k].t = "null" THEN Num(d)
                    ELSE NaNV)
              ELSE NaNV
  IN  [x \in (DOMAIN values) \cup {k} |-> IF x = k THEN cell ELSE values[x]]

\* JSON.stringify of a tally (the pg driver's and socket.io's encoding):
\* NaN is written as null
ToJSON(values) ==
  [x \in DOMAIN values |-> IF values[x].t = "NaN" THEN NullV ELSE values[x]]

\* { A: 0, B: 0, C: 0, D: 0, E: 0 }
ZeroValues == [x \in Labels |-> Num(0)]

(* ----------------------------- roomRegEx ------------------------------- *)
\* the literal "rooms" under the i flag
IsRoomsLiteral(s) == s \in {"rooms", "ROOMS", "Rooms"}

\* /^\/rooms\/(?:([^\/]+?))(?:\/([^\/]+?))?\/?$/i on the segments of a name:
\* [ok, rid, admin], admin = "" when the second group did not take part
roomRegExExec(name) ==
  LET n == Len(name)
      bad == [ok |-> FALSE, rid |-> "", admin |-> ""]
  IN  IF n < 2 \/ n > 4 THEN bad
      ELSE IF ~IsRoomsLiteral(name[1]) \/ name[2] = "" THEN bad
      ELSE IF n = 2 THEN [ok |-> TRUE, rid |-> name[2], admin |-> ""]
      ELSE IF n = 3 /\ name[3] = "" THEN [ok |-> TRUE, rid |-> name[2], admin |-> ""]
      ELSE IF n = 3 THEN [ok |-> TRUE, rid |-> name[2], admin |-> name[3]]
      ELSE IF name[3] # "" /\ name[4] = ""
           THEN [ok |-> TRUE, rid |-> name[2], admin |-> name[3]]
      ELSE bad

\* knex("Room").where({ visibleId }).select().first(): the set of matches
RoomByVisibleId(rid) == { r \in Room : r.visibleId = rid }

\* an authorizer that matches the name and skips the Room lookup
AuthorizePatternOnly(name) == roomRegExExec(name).ok

\* the authorizer of the dynamic namespace: next(null, true) or next(null, false)
Authorize(name) ==
  LET res == roomRegExExec(name)
  IN  res.ok /\ RoomByVisibleId(res.rid) # {}

\* `/rooms/${roomName}`
ViewerNsp(roomName) == <<"rooms", roomName>>
\* `/rooms/${roomName}/admin`
AdminNsp(roomName) == <<"rooms", roomName, "admin">>

(* ------------------------------- state --------------------------------- *)
VARIABLES
  Poll,        \* the Poll table: sequence of rows, a row's id is its index
  Question,    \* the Question table: set of rows
  nextQid,     \* the Question id sequence
  clock,       \* the store's clock (created_at, ended_at)
  rowLock,     \* Poll id -> the transaction holding the row lock, 0 if none
  conns,       \* connection -> [state, name, roomName, admin, roomId]
  inbox,       \* connection -> events delivered to it, in order
  tasks,       \* handler invocations in flight
  events,      \* client events handled so far: event id -> [kind, conn, arg]
  acks,        \* event -> acknowledgments sent to the submitter
  outcome,     \* event -> how its transaction ended (history)
  commitLog,   \* committed PollResponse transactions, in commit order (history)
  endLog       \* connection -> the polls there were, those whose PollEnd had
               \* completed, and the store's clock, when it connected (history)

vars == << Poll, Question, nextQid, clock, rowLock, conns, inbox, tasks,
           events, acks, outcome, commitLog, endLog >>

ConnIds == 1..MaxConns
EventIds == 1..MaxEvents
\* Poll rows a transaction can lock
LockIds == 1..MaxEvents
NoConn == [state |-> "free", name |-> <<>>, roomName |-> "", admin |-> "", roomId |-> 0]

\* the sockets of a namespace
InNsp(nsp) == { c \in ConnIds : conns[c].state \in {"lookup", "open"} /\ conns[c].name = nsp }

\* io.emit(ev) in place of io.of(nsp).emit(ev): every socket gets the event
NspEmitAllSockets(box, nsp, ev) ==
  [c \in ConnIds |-> IF conns[c].state \in {"lookup", "open"}
                     THEN Append(box[c], ev) ELSE box[c]]

\* io.of(nsp).emit(ev): every socket of the namespace gets the event
NspEmit(box, nsp, ev) ==
  [c \in ConnIds |-> IF c \in InNsp(nsp) THEN Append(box[c], ev) ELSE box[c]]

\* socket.emit(ev): the socket gets the event unless it is gone
SocketEmit(box, c, ev) ==
  [x \in ConnIds |-> IF x = c /\ conns[c].state \in {"lookup", "open"}
                     THEN Append(box[x], ev) ELSE box[x]]

\* the acknowledgment function of socket.io sends once and drops later
\* calls; nothing is sent to a socket that is gone
Callback(a, e, v) ==
  IF a[e] = <<>> /\ conns[events[e].conn].state \in {"lookup", "open"}
  THEN [a EXCEPT ![e] = <<v>>] ELSE a

Init ==
  /\ Poll = <<>>
  /\ Question = {}
  /\ nextQid = 1
  /\ clock = 1
  /\ rowLock = [p \in LockIds |-> 0]
  /\ conns = [c \in ConnIds |-> NoConn]
  /\ inbox = [c \in ConnIds |-> <<>>]
  /\ tasks = {}
  /\ events = <<>>
  /\ acks = [e \in EventIds |-> <<>>]
  /\ outcome = [e \in EventIds |-> "none"]
  /\ commitLog = <<>>
  /\ endLog = [c \in ConnIds |-> [ended |-> {}, polls |-> 0, at |-> 0]]

(* ----------------------------- connection ------------------------------ *)
\* polls ended by a PollEnd handler that has run to its acknowledgment (history)
EndCompleted ==
  { events[e].arg.pollId : e \in { x \in 1..Len(events) :
        events[x].kind = "PollEnd" /\ events[x].arg.rows = 1 /\ acks[x] # <<>> } }

\* client c asks for a channel: the authorizer (server.ts:42-65) accepts or
\* rejects; an accepted socket is in its namespace from here on
Connect(c, name) ==
  /\ conns[c].state = "free"
  /\ conns' = [conns EXCEPT ![c] =
                 [state |-> IF Authorize(name) THEN "lookup" ELSE "rejected",
                  name |-> name, roomName |-> "", admin |-> "", roomId |-> 0]]
  /\ endLog' = [endLog EXCEPT ![c] =
                   [ended |-> EndCompleted, polls |-> Len(Poll), at |-> clock]]
  /\ UNCHANGED << Poll, Question, nextQid, clock, rowLock, inbox, tasks, events,
                  acks, outcome, commitLog >>

\* a replay query issued by the connection handler
ReplayTask(kind, c) ==
  [eid |-> 0, kind |-> kind, conn |-> c, pc |-> "query", arg |-> [none |-> TRUE],
   local |-> [none |-> TRUE]]

\* the connection handler after its await of the Room row (server.ts:67-104,
\* 158-170): parse the name again, issue the replay queries, register handlers
ConnectionOpen(c) ==
  /\ conns[c].state = "lookup"
  /\ LET roomParams == roomRegExExec(conns[c].name)
         room == CHOOSE r \in RoomByVisibleId(roomParams.rid) : TRUE
     IN  IF ~roomParams.ok
         THEN /\ inbox' = SocketEmit(inbox, c, [type |-> "RoomError", payload |-> 0, eid |-> 0])
              /\ conns' = [conns EXCEPT ![c].state = "unbound"]
              /\ UNCHANGED tasks
         ELSE /\ conns' = [conns EXCEPT ![c] =
                             [state |-> "open", name |-> conns[c].name,
                              roomName |-> roomParams.rid, admin |-> roomParams.admin,
                              roomId |-> room.id]]
              /\ tasks' = tasks \cup { ReplayTask("PollReplay", c),
                                       ReplayTask("QuestionReplay", c) }
              /\ UNCHANGED inbox
  /\ UNCHANGED << Poll, Question, nextQid, clock, rowLock, events, acks,
                  outcome, commitLog, endLog >>

IsAdmin(c) == conns[c].admin # ""

\* rows of a sequence-shaped table
Rows(table) == { table[i] : i \in 1..Len(table) }

\* the same query returning the newest row as if it had never been ended
LatestPollIgnoringEnd(roomId) ==
  LET mine == { p \in Rows(Poll) : p.roomId = roomId }
  IN  IF mine = {} THEN [found |-> FALSE, id |-> 0, ended_at |-> 0]
      ELSE LET top == CHOOSE p \in mine : \A q \in mine : q.created_at <= p.created_at
           IN  [found |-> TRUE, id |-> top.id, ended_at |-> 0]

\* .where({ roomId }).orderBy("created_at", "desc"): polls[0], or none
LatestPoll(roomId) ==
  LET mine == { p \in Rows(Poll) : p.roomId = roomId }
  IN  IF mine = {} THEN [found |-> FALSE, id |-> 0, ended_at |-> 0]
      ELSE LET top == CHOOSE p \in mine : \A q \in mine : q.created_at <= p.created_at
           IN  [found |-> TRUE, id |-> top.id, ended_at |-> top.ended_at]

\* the poll replay query takes effect in the store (server.ts:82-85)
PollReplayQuery(t) ==
  /\ t \in tasks /\ t.kind = "PollReplay" /\ t.pc = "query"
  /\ tasks' = (tasks \ {t}) \cup
                { [t EXCEPT !.pc = "emit", !.local = LatestPoll(conns[t.conn].roomId)] }
  /\ UNCHANGED << Poll, Question, nextQid, clock, rowLock, conns, inbox,
                  events, acks, outcome, commitLog, endLog >>

\* the .then of the poll replay query (server.ts:86-90)
PollReplayEmit(t) ==
  /\ t \in tasks /\ t.kind = "PollReplay" /\ t.pc = "emit"
  /\ inbox' = IF t.local.found /\ t.local.ended_at = 0
              THEN SocketEmit(inbox, t.conn,
                     [type |-> "PollStart", payload |-> [id |-> t.local.id], eid |-> 0])
              ELSE inbox
  /\ tasks' = tasks \ {t}
  /\ UNCHANGED << Poll, Question, nextQid, clock, rowLock, conns, events,
                  acks, outcome, commitLog, endLog >>

\* ({ roomId: dropRoomId, ...question }) => question
StripRoom(q) == [id |-> q.id, approved |-> q.approved, votes |-> q.votes]

\* the question replay query takes effect in the store (server.ts:96-98, 162-164)
QuestionReplayQuery(t) ==
  /\ t \in tasks /\ t.kind = "QuestionReplay" /\ t.pc = "query"
  /\ LET roomId == conns[t.conn].roomId
         questions == IF IsAdmin(t.conn)
                      THEN { q \in Question : q.roomId = roomId }
                      ELSE { q \in Question : q.roomId = roomId /\ q.approved }
     IN  tasks' = (tasks \ {t}) \cup
                    { [t EXCEPT !.pc = "emit", !.local = [questions |-> questions]] }
  /\ UNCHANGED << Poll, Question, nextQid, clock, rowLock, conns, inbox,
                  events, acks, outcome, commitLog, endLog >>

\* the .then of the question replay query (server.ts:99-104, 165-170)
QuestionReplayEmit(t) ==
  /\ t \in tasks /\ t.kind = "QuestionReplay" /\ t.pc = "emit"
  /\ inbox' = SocketEmit(inbox, t.conn,
                [type |-> "QuestionNew",
                 payload |-> { StripRoom(q) : q \in t.local.questions }, eid |-> 0])
  /\ tasks' = tasks \ {t}
  /\ UNCHANGED << Poll, Question, nextQid, clock, rowLock, conns, events,
                  acks, outcome, commitLog, endLog >>

\* a disconnect that cancels the handlers of the socket and their locks
DisconnectAborting(c) ==
  /\ conns[c].state \in {"lookup", "open"}
  /\ conns' = [conns EXCEPT ![c].state = "closed"]
  /\ tasks' = { t \in tasks : t.conn # c }
  /\ rowLock' = [p \in LockIds |->
                   IF \E t \in tasks : t.conn = c /\ t.eid = rowLock[p] THEN 0
                   ELSE rowLock[p]]
  /\ UNCHANGED << Poll, Question, nextQid, clock, inbox, events, acks,
                  outcome, commitLog, endLog >>

\* the client goes away (server.ts:240-242): nothing is cleaned up
Disconnect(c) ==
  /\ conns[c].state \in {"lookup", "open"}
  /\ conns' = [conns EXCEPT ![c].state = "closed"]
  /\ UNCHANGED << Poll, Question, nextQid, clock, rowLock, inbox, tasks,
                  events, acks, outcome, commitLog, endLog >>

(* ------------------------------ PollEngine ----------------------------- *)
\* the handlers of both branches registered on every socket
HandlesAnyRole(c, admin) == conns[c].state = "open" /\ Len(events) < MaxEvents

\* a handler of connection c is invoked by a client event
Handles(c, admin) ==
  /\ conns[c].state = "open"
  /\ IsAdmin(c) = admin
  /\ Len(events) < MaxEvents

NewEid == Len(events) + 1
\* the sockets connected at the moment (history)
Connected == { c \in ConnIds : conns[c].state \in {"lookup", "open"} }
\* the record kept of a client event (history)
Event(kind, c, arg) == [kind |-> kind, conn |-> c, arg |-> arg, present |-> Connected]
Task(kind, c, pc, arg, local) ==
  [eid |-> NewEid, kind |-> kind, conn |-> c, pc |-> pc, arg |-> arg, local |-> local]

\* the events of the administrator branch (server.ts:106-157)
AdminEvents ==
  {"PollLaunch", "PollReveal", "PollToggle", "PollEnd", "QuestionApprove", "QuestionClear"}
\* the events of the viewer branch (server.ts:172-215)
ViewerEvents == {"PollResponse", "ReactionSend"}
\* the events registered on every socket (server.ts:219-238)
SharedEvents == {"QuestionAsk", "QuestionUpvote"}

\* the events socket c listens to: none until the connection handler is past
\* its await, then those of its branch and the shared ones
Registered(c) ==
  IF conns[c].state # "open" THEN {}
  ELSE (IF IsAdmin(c) THEN AdminEvents ELSE ViewerEvents) \cup SharedEvents

\* a client event the socket has no listener for: the emitter drops it
Unhandled(c, type) ==
  /\ conns[c].state \in {"lookup", "open", "unbound"}
  /\ type \notin Registered(c)
  /\ Len(events) < MaxEvents
  /\ events' = Append(events, Event("Unhandled", c, [type |-> type]))
  /\ UNCHANGED << Poll, Question, nextQid, clock, rowLock, conns, inbox, tasks,
                  acks, outcome, commitLog, endLog >>

\* PollLaunch: the insert takes effect (server.ts:106-111)
PollLaunch(c) ==
  /\ Handles(c, TRUE)
  /\ LET id == Len(Poll) + 1
     IN  /\ Poll' = Append(Poll, [id |-> id, roomId |-> conns[c].roomId,
                                  values |-> ZeroValues, created_at |-> clock,
                                  ended_at |-> 0])
         /\ tasks' = tasks \cup { Task("PollLaunch", c, "cont", [none |-> TRUE], [id |-> id]) }
  /\ clock' = clock + 1
  /\ events' = Append(events, Event("PollLaunch", c, [none |-> TRUE]))
  /\ UNCHANGED << Question, nextQid, rowLock, conns, inbox, acks, outcome,
                  commitLog, endLog >>

\* PollLaunch after the await: start the poll on the viewers, acknowledge
\* (server.ts:113-116)
PollLaunchCont(t) ==
  /\ t \in tasks /\ t.kind = "PollLaunch" /\ t.pc = "cont"
  /\ inbox' = NspEmit(inbox, ViewerNsp(conns[t.conn].roomName),
                [type |-> "PollStart", payload |-> t.local, eid |-> t.eid])
  /\ acks' = Callback(acks, t.eid, [poll |-> t.local])
  /\ tasks' = tasks \ {t}
  /\ UNCHANGED << Poll, Question, nextQid, clock, rowLock, conns, events,
                  outcome, commitLog, endLog >>

\* PollReveal: the read takes effect (server.ts:119-120)
PollReveal(c, pollId) ==
  /\ Handles(c, TRUE)
  /\ LET poll == IF pollId \in 1..Len(Poll)
                 THEN [found |-> TRUE, values |-> Poll[pollId].values]
                 ELSE [found |-> FALSE, values |-> ZeroValues]
     IN  tasks' = tasks \cup { Task("PollReveal", c, "cont", [pollId |-> pollId], poll) }
  /\ events' = Append(events, Event("PollReveal", c, [pollId |-> pollId]))
  /\ UNCHANGED << Poll, Question, nextQid, clock, rowLock, conns, inbox,
                  acks, outcome, commitLog, endLog >>

\* PollReveal after the await (server.ts:121-122): poll.values of a missing
\* row throws and nothing is sent
PollRevealCont(t) ==
  /\ t \in tasks /\ t.kind = "PollReveal" /\ t.pc = "cont"
  /\ inbox' = IF t.local.found
              THEN NspEmit(inbox, ViewerNsp(conns[t.conn].roomName),
                     [type |-> "PollResults", payload |-> t.local.values, eid |-> t.eid])
              ELSE inbox
  /\ tasks' = tasks \ {t}
  /\ UNCHANGED << Poll, Question, nextQid, clock, rowLock, conns, events,
                  acks, outcome, commitLog, endLog >>

\* PollToggle (server.ts:125-128): no await
PollToggle(c) ==
  /\ Handles(c, TRUE)
  /\ inbox' = NspEmit(inbox, ViewerNsp(conns[c].roomName),
                [type |-> "PollToggle", payload |-> 0, eid |-> NewEid])
  /\ events' = Append(events, Event("PollToggle", c, [none |-> TRUE]))
  /\ UNCHANGED << Poll, Question, nextQid, clock, rowLock, conns, tasks,
                  acks, outcome, commitLog, endLog >>

\* PollEnd: the update takes effect (server.ts:130-134); it waits for the
\* row lock of a transaction that has written the row
PollEnd(c, pollId) ==
  /\ Handles(c, TRUE)
  /\ rowLock[pollId] = 0
  /\ Poll' = IF pollId \in 1..Len(Poll)
             THEN [Poll EXCEPT ![pollId].ended_at = clock]
             ELSE Poll
  /\ clock' = clock + 1
  /\ tasks' = tasks \cup { Task("PollEnd", c, "cont", [pollId |-> pollId], [none |-> TRUE]) }
  /\ events' = Append(events,
                 Event("PollEnd", c,
                       [pollId |-> pollId,
                        rows |-> IF pollId \in 1..Len(Poll) THEN 1 ELSE 0]))
  /\ UNCHANGED << Question, nextQid, rowLock, conns, inbox, acks, outcome,
                  commitLog, endLog >>

\* PollEnd after the await (server.ts:135-137)
PollEndCont(t) ==
  /\ t \in tasks /\ t.kind = "PollEnd" /\ t.pc = "cont"
  /\ inbox' = NspEmit(inbox, ViewerNsp(conns[t.conn].roomName),
                [type |-> "PollEnd", payload |-> 0, eid |-> t.eid])
  /\ acks' = Callback(acks, t.eid, [ok |-> TRUE])
  /\ tasks' = tasks \ {t}
  /\ UNCHANGED << Poll, Question, nextQid, clock, rowLock, conns, events,
                  outcome, commitLog, endLog >>

\* the handler's arithmetic on the tally it read (server.ts:184-187)
UpdateValues(values, prevChoice, newChoice) ==
  LET afterPrev == IF prevChoice # NoChoice THEN JsAddAt(values, prevChoice, -1)
                   ELSE values
  IN  JsAddAt(afterPrev, newChoice, 1)

\* PollResponse: the transaction begins and its read takes effect
\* (server.ts:172-187). The read sees the committed row. A failed read, or
\* poll.values of a missing row, throws and ends the transaction.
PollResponse(c, pollId, prevChoice, newChoice) ==
  /\ Handles(c, FALSE)
  /\ \E ok \in BOOLEAN :
       LET arg == [id |-> pollId, prevChoice |-> prevChoice, newChoice |-> newChoice]
       IN  IF ok /\ pollId \in 1..Len(Poll)
           THEN tasks' = tasks \cup
                  { Task("PollResponse", c, "write", arg,
                         [values |-> UpdateValues(Poll[pollId].values, prevChoice, newChoice)]) }
           ELSE tasks' = tasks \cup
                  { Task("PollResponse", c, "catch", arg, [values |-> ZeroValues]) }
  /\ events' = Append(events,
                 Event("PollResponse", c,
                       [id |-> pollId, prevChoice |-> prevChoice, newChoice |-> newChoice]))
  /\ UNCHANGED << Poll, Question, nextQid, clock, rowLock, conns, inbox,
                  acks, outcome, commitLog, endLog >>

\* the transaction's update takes effect (server.ts:190-192): it takes the
\* row lock, waiting while another transaction holds it; a failed update throws
PollResponseWrite(t) ==
  /\ t \in tasks /\ t.kind = "PollResponse" /\ t.pc = "write"
  /\ rowLock[t.arg.id] = 0
  /\ \E ok \in BOOLEAN :
       IF ok
       THEN /\ rowLock' = [rowLock EXCEPT ![t.arg.id] = t.eid]
            /\ tasks' = (tasks \ {t}) \cup { [t EXCEPT !.pc = "emit"] }
       ELSE /\ tasks' = (tasks \ {t}) \cup { [t EXCEPT !.pc = "catch"] }
            /\ UNCHANGED rowLock
  /\ UNCHANGED << Poll, Question, nextQid, clock, conns, inbox, events,
                  acks, outcome, commitLog, endLog >>

\* the rest of the transaction body (server.ts:194-198): the results go to
\* the admin namespace and the submitter is acknowledged
PollResponseEmit(t) ==
  /\ t \in tasks /\ t.kind = "PollResponse" /\ t.pc = "emit"
  /\ inbox' = NspEmit(inbox, AdminNsp(conns[t.conn].roomName),
                [type |-> "PollResults", payload |-> ToJSON(t.local.values), eid |-> t.eid])
  /\ acks' = Callback(acks, t.eid, [kind |-> "choice", choice |-> t.arg.newChoice])
  /\ tasks' = (tasks \ {t}) \cup { [t EXCEPT !.pc = "commit"] }
  /\ UNCHANGED << Poll, Question, nextQid, clock, rowLock, conns, events,
                  outcome, commitLog, endLog >>

\* the transaction body has returned and knex commits (server.ts:199): the
\* written tally becomes the row's and the lock is released, or the commit
\* fails, the write is rolled back and knex.transaction throws
PollResponseCommit(t) ==
  /\ t \in tasks /\ t.kind = "PollResponse" /\ t.pc = "commit"
  /\ rowLock' = [rowLock EXCEPT ![t.arg.id] = 0]
  /\ \E ok \in BOOLEAN :
       IF ok
       THEN /\ Poll' = [Poll EXCEPT ![t.arg.id].values = ToJSON(t.local.values)]
            /\ outcome' = [outcome EXCEPT ![t.eid] = "committed"]
            /\ commitLog' = Append(commitLog,
                              [eid |-> t.eid, before |-> Poll[t.arg.id].values,
                               after |-> ToJSON(t.local.values)])
            /\ tasks' = tasks \ {t}
       ELSE /\ tasks' = (tasks \ {t}) \cup { [t EXCEPT !.pc = "catch"] }
            /\ UNCHANGED << Poll, outcome, commitLog >>
  /\ UNCHANGED << Question, nextQid, clock, conns, inbox, events, acks,
                  endLog >>

\* catch (error) { callback(error) } (server.ts:200-202)
PollResponseCatch(t) ==
  /\ t \in tasks /\ t.kind = "PollResponse" /\ t.pc = "catch"
  /\ acks' = Callback(acks, t.eid, [kind |-> "error", choice |-> ""])
  /\ outcome' = [outcome EXCEPT ![t.eid] = "failed"]
  /\ tasks' = tasks \ {t}
  /\ UNCHANGED << Poll, Question, nextQid, clock, rowLock, conns, inbox,
                  events, commitLog, endLog >>

(* ------------------------- ReactionBroadcaster ------------------------- *)
\* ReactionSend (server.ts:206-215), registered on viewer sockets only
ReactionSend(c, codePoint) ==
  /\ Handles(c, FALSE)
  /\ \E position \in Positions :
       inbox' = IF codePoint # ""
                THEN NspEmit(inbox, ViewerNsp(conns[c].roomName),
                       [type |-> "ReactionShow",
                        payload |-> [id |-> NewEid, position |-> position,
                                     codePoint |-> codePoint],
                        eid |-> NewEid])
                ELSE inbox
  /\ events' = Append(events, Event("ReactionSend", c, [codePoint |-> codePoint]))
  /\ UNCHANGED << Poll, Question, nextQid, clock, rowLock, conns, tasks,
                  acks, outcome, commitLog, endLog >>

(* ----------------------------- QuestionBoard --------------------------- *)
\* a handler of either role is invoked by a client event
HandlesShared(c) == conns[c].state = "open" /\ Len(events) < MaxEvents

\* QuestionApprove: the update takes effect and returns the rows it changed
\* (server.ts:141-145)
QuestionApprove(c, questionId) ==
  /\ Handles(c, TRUE)
  /\ LET hit == { q \in Question : q.id = questionId }
         updated == { [q EXCEPT !.approved = TRUE] : q \in hit }
     IN  /\ Question' = (Question \ hit) \cup updated
         /\ tasks' = tasks \cup
              { Task("QuestionApprove", c, "cont", [questionId |-> questionId],
                     [rows |-> updated]) }
  /\ events' = Append(events, Event("QuestionApprove", c, [questionId |-> questionId]))
  /\ UNCHANGED << Poll, nextQid, clock, rowLock, conns, inbox, acks,
                  outcome, commitLog, endLog >>

\* QuestionApprove after the await (server.ts:143-148): destructuring the
\* first of no rows throws and nothing is sent
QuestionApproveCont(t) ==
  /\ t \in tasks /\ t.kind = "QuestionApprove" /\ t.pc = "cont"
  /\ IF t.local.rows = {}
     THEN UNCHANGED << inbox, acks >>
     ELSE LET question == StripRoom(CHOOSE q \in t.local.rows : TRUE)
          IN  /\ inbox' = NspEmit(inbox, ViewerNsp(conns[t.conn].roomName),
                            [type |-> "QuestionNew", payload |-> {question}, eid |-> t.eid])
              /\ acks' = Callback(acks, t.eid, [kind |-> "question", choice |-> ""])
  /\ tasks' = tasks \ {t}
  /\ UNCHANGED << Poll, Question, nextQid, clock, rowLock, conns, events,
                  outcome, commitLog, endLog >>

\* QuestionClear: the delete takes effect (server.ts:151-153)
QuestionClear(c) ==
  /\ Handles(c, TRUE)
  /\ Question' = { q \in Question : q.roomId # conns[c].roomId }
  /\ tasks' = tasks \cup
       { Task("QuestionClear", c, "cont", [none |-> TRUE], [none |-> TRUE]) }
  /\ events' = Append(events, Event("QuestionClear", c, [none |-> TRUE]))
  /\ UNCHANGED << Poll, nextQid, clock, rowLock, conns, inbox, acks,
                  outcome, commitLog, endLog >>

\* QuestionClear after the await (server.ts:155-156)
QuestionClearCont(t) ==
  /\ t \in tasks /\ t.kind = "QuestionClear" /\ t.pc = "cont"
  /\ LET ev == [type |-> "QuestionClear", payload |-> 0, eid |-> t.eid]
         toViewers == NspEmit(inbox, ViewerNsp(conns[t.conn].roomName), ev)
     IN  inbox' = SocketEmit(toViewers, t.conn, ev)
  /\ tasks' = tasks \ {t}
  /\ UNCHANGED << Poll, Question, nextQid, clock, rowLock, conns, events,
                  acks, outcome, commitLog, endLog >>

\* { roomId, ...data, approved: false } with the columns' defaults
NewQuestionRow(roomId, data) ==
  [id |-> nextQid,
   roomId |-> IF "roomId" \in data.fields THEN data.roomId ELSE roomId,
   approved |-> FALSE,
   votes |-> IF "votes" \in data.fields THEN data.votes ELSE 0]

\* QuestionAsk: the insert takes effect (server.ts:219-222)
QuestionAsk(c, data) ==
  /\ HandlesShared(c)
  /\ LET row == NewQuestionRow(conns[c].roomId, data)
     IN  /\ Question' = Question \cup {row}
         /\ tasks' = tasks \cup { Task("QuestionAsk", c, "cont", data, [row |-> row]) }
  /\ nextQid' = nextQid + 1
  /\ events' = Append(events, Event("QuestionAsk", c, data))
  /\ UNCHANGED << Poll, clock, rowLock, conns, inbox, acks, outcome,
                  commitLog, endLog >>

\* QuestionAsk after the await (server.ts:223-226)
QuestionAskCont(t) ==
  /\ t \in tasks /\ t.kind = "QuestionAsk" /\ t.pc = "cont"
  /\ acks' = Callback(acks, t.eid, [kind |-> "true", choice |-> ""])
  /\ inbox' = NspEmit(inbox, AdminNsp(conns[t.conn].roomName),
                [type |-> "QuestionNew", payload |-> {StripRoom(t.local.row)},
                 eid |-> t.eid])
  /\ tasks' = tasks \ {t}
  /\ UNCHANGED << Poll, Question, nextQid, clock, rowLock, conns, events,
                  outcome, commitLog, endLog >>

\* an upvote that writes the count of a first vote instead of incrementing
\* the stored one
QuestionUpvoteOverwrite(c, questionId) ==
  /\ HandlesShared(c)
  /\ LET hit == { q \in Question : q.id = questionId }
         updated == { [q EXCEPT !.votes = 1] : q \in hit }
     IN  /\ Question' = (Question \ hit) \cup updated
         /\ tasks' = tasks \cup
              { Task("QuestionUpvote", c, "cont", [questionId |-> questionId],
                     [rows |-> updated]) }
  /\ events' = Append(events, Event("QuestionUpvote", c, [questionId |-> questionId]))
  /\ UNCHANGED << Poll, nextQid, clock, rowLock, conns, inbox, acks,
                  outcome, commitLog, endLog >>

\* QuestionUpvote: the update takes effect and returns the rows it changed
\* (server.ts:229-233)
QuestionUpvote(c, questionId) ==
  /\ HandlesShared(c)
  /\ LET hit == { q \in Question : q.id = questionId }
         updated == { [q EXCEPT !.votes = @ + 1] : q \in hit }
     IN  /\ Question' = (Question \ hit) \cup updated
         /\ tasks' = tasks \cup
              { Task("QuestionUpvote", c, "cont", [questionId |-> questionId],
                     [rows |-> updated]) }
  /\ events' = Append(events, Event("QuestionUpvote", c, [questionId |-> questionId]))
  /\ UNCHANGED << Poll, nextQid, clock, rowLock, conns, inbox, acks,
                  outcome, commitLog, endLog >>

\* QuestionUpvote after the await (server.ts:230-237): destructuring the
\* first of no rows throws and nothing is sent
QuestionUpvoteCont(t) ==
  /\ t \in tasks /\ t.kind = "QuestionUpvote" /\ t.pc = "cont"
  /\ IF t.local.rows = {}
     THEN UNCHANGED inbox
     ELSE LET question == StripRoom(CHOOSE q \in t.local.rows : TRUE)
              ev == [type |-> "QuestionNew", payload |-> {question}, eid |-> t.eid]
              toViewers == NspEmit(inbox, ViewerNsp(conns[t.conn].roomName), ev)
          IN  inbox' = NspEmit(toViewers, AdminNsp(conns[t.conn].roomName), ev)
  /\ tasks' = tasks \ {t}
  /\ UNCHANGED << Poll, Question, nextQid, clock, rowLock, conns, events,
                  acks, outcome, commitLog, endLog >>

(* --------------------------- specifications ---------------------------- *)
\* Each specification runs the handlers of one part of the broker on the
\* inputs its claims are about; the handlers are the same definitions.

\* A specification leaves out the replay steps its claims do not read: the
\* query stays in flight, which every behaviour of the program may do.

\* --- the poll tally: one room, an admin and viewers
PollChannels(c) ==
  IF c = 1 THEN { <<"rooms", "r1", "admin">> } ELSE { <<"rooms", "r1">> }
PollIds == {1}
PrevChoices == {NoChoice, "A"}
NewChoices == {"A", "B"}

NextPoll ==
  \/ \E c \in ConnIds : \E name \in PollChannels(c) : Connect(c, name)
  \/ \E c \in ConnIds : ConnectionOpen(c)
  \/ \E c \in ConnIds : PollLaunch(c)
  \/ \E t \in tasks : PollLaunchCont(t)
  \/ \E c \in ConnIds, pollId \in PollIds, prevChoice \in PrevChoices,
        newChoice \in NewChoices : PollResponse(c, pollId, prevChoice, newChoice)
  \/ \E t \in tasks : PollResponseWrite(t)
  \/ \E t \in tasks : PollResponseEmit(t)
  \/ \E t \in tasks : PollResponseCommit(t)
  \/ \E t \in tasks : PollResponseCatch(t)

SpecPoll == Init /\ [][NextPoll]_vars

\* --- the poll lifecycle and its replay: an admin, then viewers and admins
LifecycleChannels(c) ==
  IF c = 1 THEN { <<"rooms", "r1", "admin">> }
  ELSE { <<"rooms", "r1">>, <<"rooms", "r2", "admin">> }
LifecyclePollIds == {1, 2}

NextLifecycle ==
  \/ \E c \in ConnIds : \E name \in LifecycleChannels(c) : Connect(c, name)
  \/ \E c \in ConnIds : ConnectionOpen(c)
  \/ \E t \in tasks : PollReplayQuery(t)
  \/ \E t \in tasks : PollReplayEmit(t)
  \/ \E c \in ConnIds : Len(events) < MaxLifecycleEvents /\ PollLaunch(c)
  \/ \E t \in tasks : PollLaunchCont(t)
  \/ \E c \in ConnIds, pollId \in LifecyclePollIds :
        Len(events) < MaxLifecycleEvents /\ PollEnd(c, pollId)
  \/ \E t \in tasks : PollEndCont(t)

SpecLifecycle == Init /\ [][NextLifecycle]_vars

\* --- the question board: one room, an admin, then viewers and admins
QuestionChannels(c) ==
  IF c = 1 THEN { <<"rooms", "r1", "admin">> }
  ELSE { <<"rooms", "r1">>, <<"rooms", "r1", "admin">>, <<"rooms", "r1", "host">> }
QuestionIds == {1}

NextQuestion ==
  \/ \E c \in ConnIds : \E name \in QuestionChannels(c) : Connect(c, name)
  \/ \E c \in ConnIds : ConnectionOpen(c)
  \/ \E t \in tasks : QuestionReplayQuery(t)
  \/ \E t \in tasks : QuestionReplayEmit(t)
  \/ \E c \in ConnIds, questionId \in QuestionIds :
        Len(events) < MaxQuestionEvents /\ QuestionApprove(c, questionId)
  \/ \E t \in tasks : QuestionApproveCont(t)
  \/ \E c \in ConnIds : Len(events) < MaxQuestionEvents /\ QuestionClear(c)
  \/ \E t \in tasks : QuestionClearCont(t)
  \/ \E c \in ConnIds : Len(events) < MaxQuestionEvents /\ QuestionAsk(c, PlainAsk)
  \/ \E t \in tasks : QuestionAskCont(t)
  \/ \E c \in ConnIds, questionId \in QuestionIds :
        Len(events) < MaxQuestionEvents /\ QuestionUpvote(c, questionId)
  \/ \E t \in tasks : QuestionUpvoteCont(t)

SpecQuestion == Init /\ [][NextQuestion]_vars

\* --- reactions: a viewer, then every kind of channel name
ReactionChannels(c) ==
  IF c = 1 THEN { <<"rooms", "r1">> }
  ELSE { <<"rooms", "r1">>, <<"rooms", "r1", "">>, <<"rooms", "r1", "admin">>,
         <<"rooms", "r2">>, <<"rooms", "nope">>, <<"lobby">> }
\* reaction values clients send: the empty (falsy) one and a code point
CodePoints == {"", "1F44D"}

NextReaction ==
  \/ \E c \in ConnIds : \E name \in ReactionChannels(c) : Connect(c, name)
  \/ \E c \in ConnIds : ConnectionOpen(c)
  \/ \E c \in ConnIds : Disconnect(c)
  \/ \E c \in ConnIds, codePoint \in CodePoints :
        Len(events) < MaxReactionEvents /\ ReactionSend(c, codePoint)

SpecReaction == Init /\ [][NextReaction]_vars

\* --- the authorizer: well-formed and malformed names, known and unknown rooms
AuthorizeChannels(c) ==
  IF c = 1
  THEN { <<"Rooms", "r2">>, <<"rooms", "r1", "admin", "">>, <<"rooms", "nope">>, <<"rooms">>,
         <<"rooms", "">>, <<"rooms", "r1", "", "">>, <<"rooms", "r1", "admin", "x">>,
         <<"chat", "r1">> }
  ELSE { <<"rooms", "r1">>, <<"lobby">>, <<"rooms", "nope", "admin">> }

NextAuthorize ==
  \/ \E c \in ConnIds : \E name \in AuthorizeChannels(c) : Connect(c, name)
  \/ \E c \in ConnIds : ConnectionOpen(c)
  \/ \E t \in tasks : PollReplayQuery(t)
  \/ \E t \in tasks : PollReplayEmit(t)
  \/ \E t \in tasks : QuestionReplayQuery(t)
  \/ \E t \in tasks : QuestionReplayEmit(t)
  \/ \E c \in ConnIds : Len(events) < MaxAuthorizeEvents /\ QuestionAsk(c, PlainAsk)
  \/ \E t \in tasks : QuestionAskCont(t)

SpecAuthorize == Init /\ [][NextAuthorize]_vars

\* --- the role branch: administrators under two role tokens, viewers with
\* and without the closing slash, every event sent on every connection
RoleChannels(c) ==
  IF c = 1 THEN { <<"rooms", "r1", "admin">>, <<"rooms", "r1", "host">> }
  ELSE { <<"rooms", "r1">>, <<"rooms", "r1", "">> }
RoleEventTypes == AdminEvents \cup ViewerEvents \cup SharedEvents

NextRole ==
  \/ \E c \in ConnIds : \E name \in RoleChannels(c) : Connect(c, name)
  \/ \E c \in ConnIds : ConnectionOpen(c)
  \/ \E c \in ConnIds, type \in RoleEventTypes :
        Len(events) < MaxRoleEvents /\ Unhandled(c, type)
  \/ \E c \in ConnIds : Len(events) < MaxRoleEvents /\ PollLaunch(c)
  \/ \E t \in tasks : PollLaunchCont(t)
  \/ \E c \in ConnIds, pollId \in PollIds :
        Len(events) < MaxRoleEvents /\ PollReveal(c, pollId)
  \/ \E t \in tasks : PollRevealCont(t)
  \/ \E c \in ConnIds : Len(events) < MaxRoleEvents /\ PollToggle(c)
  \/ \E c \in ConnIds, pollId \in PollIds :
        Len(events) < MaxRoleEvents /\ PollEnd(c, pollId)
  \/ \E t \in tasks : PollEndCont(t)
  \/ \E c \in ConnIds, pollId \in PollIds :
        Len(events) < MaxRoleEvents /\ PollResponse(c, pollId, NoChoice, "A")
  \/ \E t \in tasks : PollResponseWrite(t)
  \/ \E t \in tasks : PollResponseEmit(t)
  \/ \E t \in tasks : PollResponseCommit(t)
  \/ \E t \in tasks : PollResponseCatch(t)
  \/ \E c \in ConnIds : Len(events) < MaxRoleEvents /\ ReactionSend(c, "1F44D")
  \/ \E c \in ConnIds, questionId \in QuestionIds :
        Len(events) < MaxRoleEvents /\ QuestionApprove(c, questionId)
  \/ \E t \in tasks : QuestionApproveCont(t)
  \/ \E c \in ConnIds : Len(events) < MaxRoleEvents /\ QuestionClear(c)
  \/ \E t \in tasks : QuestionClearCont(t)
  \/ \E c \in ConnIds : Len(events) < MaxRoleEvents /\ QuestionAsk(c, PlainAsk)
  \/ \E t \in tasks : QuestionAskCont(t)
  \/ \E c \in ConnIds, questionId \in QuestionIds :
        Len(events) < MaxRoleEvents /\ QuestionUpvote(c, questionId)
  \/ \E t \in tasks : QuestionUpvoteCont(t)

SpecRole == Init /\ [][NextRole]_vars

\* --- the board's records: an administrator and a viewer of one room, asks
\* with plain and with extended payloads, approvals and upvotes
BoardChannels(c) ==
  IF c = 1 THEN { <<"rooms", "r1", "admin">> } ELSE { <<"rooms", "r1">> }

NextBoard ==
  \/ \E c \in ConnIds : \E name \in BoardChannels(c) : Connect(c, name)
  \/ \E c \in ConnIds : ConnectionOpen(c)
  \/ \E c \in ConnIds, data \in AskPayloads :
        Len(events) < MaxBoardEvents /\ QuestionAsk(c, data)
  \/ \E t \in tasks : QuestionAskCont(t)
  \/ \E c \in ConnIds, questionId \in QuestionIds :
        Len(events) < MaxBoardEvents /\ QuestionApprove(c, questionId)
  \/ \E t \in tasks : QuestionApproveCont(t)
  \/ \E c \in ConnIds, questionId \in QuestionIds :
        Len(events) < MaxBoardEvents /\ QuestionUpvote(c, questionId)
  \/ \E t \in tasks : QuestionUpvoteCont(t)

SpecBoard == Init /\ [][NextBoard]_vars

\* --- disconnects: an administrator and a viewer that may leave at any
\* moment of its response
DisconnectChannels(c) ==
  IF c = 1 THEN { <<"rooms", "r1", "admin">> } ELSE { <<"rooms", "r1">> }

NextDisconnect ==
  \/ \E c \in ConnIds : \E name \in DisconnectChannels(c) : Connect(c, name)
  \/ \E c \in ConnIds : ConnectionOpen(c)
  \/ \E c \in ConnIds : Disconnect(c)
  \/ \E c \in ConnIds : Len(events) < MaxDisconnectEvents /\ PollLaunch(c)
  \/ \E t \in tasks : PollLaunchCont(t)
  \/ \E c \in ConnIds, pollId \in PollIds :
        Len(events) < MaxDisconnectEvents /\ PollResponse(c, pollId, NoChoice, "A")
  \/ \E t \in tasks : PollResponseWrite(t)
  \/ \E t \in tasks : PollResponseEmit(t)
  \/ \E t \in tasks : PollResponseCommit(t)
  \/ \E t \in tasks : PollResponseCatch(t)

SpecDisconnect == Init /\ [][NextDisconnect]_vars

\* --- the tally's shape: responses that carry a label and responses that
\* carry a value that is no label
TallyChannels(c) ==
  IF c = 1 THEN { <<"rooms", "r1", "admin">> } ELSE { <<"rooms", "r1">> }
TallyPrevChoices == {NoChoice, "Z"}
TallyNewChoices == {"A", "Z"}

NextTally ==
  \/ \E c \in ConnIds : \E name \in TallyChannels(c) : Connect(c, name)
  \/ \E c \in ConnIds : ConnectionOpen(c)
  \/ \E c \in ConnIds : Len(events) < MaxTallyEvents /\ PollLaunch(c)
  \/ \E t \in tasks : PollLaunchCont(t)
  \/ \E c \in ConnIds, pollId \in PollIds, prevChoice \in TallyPrevChoices,
        newChoice \in TallyNewChoices :
        Len(events) < MaxTallyEvents /\ PollResponse(c, pollId, prevChoice, newChoice)
  \/ \E t \in tasks : PollResponseWrite(t)
  \/ \E t \in tasks : PollResponseEmit(t)
  \/ \E t \in tasks : PollResponseCommit(t)
  \/ \E t \in tasks : PollResponseCatch(t)

SpecTally == Init /\ [][NextTally]_vars

(* ------------------------------- claims -------------------------------- *)
\* the client events handled so far
Handled == 1..Len(events)
\* the events of one kind
EventsOf(kind) == { e \in Handled : events[e].kind = kind }
\* the handler of event e has run to its end
Done(e) == \A t \in tasks : t.eid # e
\* the events delivered to connection c
Delivered(c) == { inbox[c][i] : i \in 1..Len(inbox[c]) }
\* how many times connection c was sent an event of this type caused by e
Count(c, type, e) ==
  Cardinality({ i \in 1..Len(inbox[c]) : inbox[c][i].type = type /\ inbox[c][i].eid = e })
\* the role a channel name asks for
AdminName(name) == roomRegExExec(name).admin # ""

\* the change a response asks for on label k
Delta(e, k) ==
  (IF events[e].arg.newChoice = k THEN 1 ELSE 0)
    - (IF events[e].arg.prevChoice = k THEN 1 ELSE 0)

RECURSIVE SumDelta(_, _)
SumDelta(es, k) ==
  IF es = {} THEN 0
  ELSE LET e == CHOOSE x \in es : TRUE
       IN  Delta(e, k) + SumDelta(es \ {e}, k)

\* the committed responses to poll p
CommittedTo(p) ==
  { e \in EventsOf("PollResponse") : events[e].arg.id = p /\ outcome[e] = "committed" }

\* C1: once every PollResponse in flight has ended, the stored tally of each
\* poll is the zero tally plus the sum of the deltas of the responses that
\* committed: no increment or decrement is lost.
C1_NoLostUpdate ==
  (\A e \in EventsOf("PollResponse") : Done(e))
    => \A p \in 1..Len(Poll) : \A k \in Labels :
         Poll[p].values[k] = Num(SumDelta(CommittedTo(p), k))

\* C3: every count of every stored tally is a non-negative integer.
C3_CountsNonNegative ==
  \A p \in 1..Len(Poll) : \A k \in DOMAIN Poll[p].values :
    Poll[p].values[k].t = "number" /\ Poll[p].values[k].v >= 0

\* C4: a PollResults event caused by a PollResponse is delivered only once
\* that response's transaction has committed (so never for a failed one).
C4_BroadcastAfterCommit ==
  \A c \in ConnIds : \A ev \in Delivered(c) :
    (ev.type = "PollResults" /\ ev.eid \in EventsOf("PollResponse"))
      => outcome[ev.eid] = "committed"

\* C5: a PollResponse whose handler has ended was acknowledged exactly once,
\* with the accepted choice exactly when its transaction committed and with
\* the error exactly when it failed.
C5_AckMatchesOutcome ==
  \A e \in EventsOf("PollResponse") :
    Done(e) => /\ Len(acks[e]) = 1
               /\ (acks[e][1].kind = "choice") <=> (outcome[e] = "committed")
               /\ (acks[e][1].kind = "error") <=> (outcome[e] = "failed")

\* C6: a committed PollResponse changed the stored tally by exactly -1 on
\* its previous choice (if any) and +1 on its new choice, every other label
\* unchanged.
C6_CommitIsExactDelta ==
  \A i \in 1..Len(commitLog) :
    LET entry == commitLog[i]
    IN  \A k \in Labels :
          entry.after[k] = Num(entry.before[k].v + Delta(entry.eid, k))

\* the PollStart events connection c got from its replay
ReplayStarts(c) == { ev \in Delivered(c) : ev.type = "PollStart" /\ ev.eid = 0 }

\* C7: a PollEnd that found its poll leaves it with an end timestamp; a
\* replay PollStart never carries a poll whose PollEnd had completed, or
\* whose end timestamp was set, before the client connected; it carries a
\* poll of the client's room that is at least as new as every poll the room
\* had when the client connected.
C7_EndedPollNotReplayed ==
  /\ \A e \in EventsOf("PollEnd") :
       events[e].arg.rows = 1 => Poll[events[e].arg.pollId].ended_at # 0
  /\ \A c \in ConnIds : \A ev \in ReplayStarts(c) :
       LET p == Poll[ev.payload.id]
       IN  /\ p.id \notin endLog[c].ended
           /\ p.ended_at = 0 \/ p.ended_at >= endLog[c].at
           /\ p.roomId = conns[c].roomId
           /\ \A q \in 1..endLog[c].polls :
                Poll[q].roomId = p.roomId => Poll[q].created_at <= p.created_at

\* a client connected after the PollEnd of its room's newest poll had
\* completed, and its poll replay has run
C7_Witness ==
  \E c \in ConnIds :
    /\ conns[c].state = "open"
    /\ \A t \in tasks : ~(t.kind = "PollReplay" /\ t.conn = c)
    /\ \E p \in endLog[c].ended :
         /\ Poll[p].roomId = conns[c].roomId
         /\ LatestPoll(conns[c].roomId).id = p
    /\ ReplayStarts(c) = {}

\* the connections that were connected in room r when event e was handled
PresentIn(e, r) ==
  { c \in events[e].present : roomRegExExec(conns[c].name).rid = r }
\* the room of the connection that sent event e
RoomOf(e) == roomRegExExec(conns[events[e].conn].name).rid

\* C2: every question record delivered to a viewer connection, by replay or
\* by a broadcast, is approved.
C2_ViewersGetApprovedOnly ==
  \A c \in ConnIds : \A ev \in Delivered(c) :
    (ev.type = "QuestionNew" /\ ~AdminName(conns[c].name))
      => \A q \in ev.payload : q.approved

\* C8: while no later QuestionAsk has been handled, a QuestionClear whose
\* delete has taken effect leaves no question of the room; once its handler
\* has ended, every connection of the room that was connected when it was
\* handled, viewer or administrator, has received QuestionClear exactly once.
C8_ClearReachesEveryone ==
  \A e \in EventsOf("QuestionClear") :
    /\ (\A x \in EventsOf("QuestionAsk") : x < e)
         => \A q \in Question : q.roomId # conns[events[e].conn].roomId
    /\ Done(e) => \A c \in PresentIn(e, RoomOf(e)) : Count(c, "QuestionClear", e) = 1

\* C10: once the handler of a QuestionAsk, or of a QuestionUpvote that
\* found its question, has ended, every administrator connection of the room
\* that was connected when it was handled has received its QuestionNew,
\* whatever role token the connection's channel name carries.
C10_AdminBroadcastReachesAllAdmins ==
  \A e \in EventsOf("QuestionAsk") \cup EventsOf("QuestionUpvote") :
    (/\ Done(e)
     /\ \/ events[e].kind = "QuestionAsk"
        \/ \E c \in ConnIds : Count(c, "QuestionNew", e) > 0)
      => \A c \in PresentIn(e, RoomOf(e)) :
           AdminName(conns[c].name) => Count(c, "QuestionNew", e) >= 1

\* the ReactionSend events that carried a value
Reactions == { e \in EventsOf("ReactionSend") : events[e].arg.codePoint # "" }

MatchesRoomPath(name) ==
  LET n == Len(name)
      path == IF n >= 3 /\ name[n] = "" THEN SubSeq(name, 1, n - 1) ELSE name
  IN  /\ Len(path) \in {2, 3}
      /\ path[1] \in {"rooms", "Rooms", "ROOMS"}
      /\ \A i \in 2..Len(path) : path[i] # ""

\* the connections whose request the authorizer has answered
Answered == { c \in ConnIds : conns[c].state # "free" }

\* C11: a requested channel is rejected exactly when its name does not match
\* the room-path pattern or no Room has the room token as its visible id; a
\* rejected connection is sent nothing, has no replay and none of its events
\* is handled; the step that answers a request leaves the store as it was.
C11_RejectedIffUnauthorized ==
  /\ [](\A c \in Answered :
          /\ (conns[c].state = "rejected")
               <=> ~(/\ MatchesRoomPath(conns[c].name)
                     /\ \E r \in Room : r.visibleId = conns[c].name[2])
          /\ conns[c].state = "rejected"
               => /\ inbox[c] = <<>>
                  /\ \A t \in tasks : t.conn # c
                  /\ \A e \in Handled : events[e].conn # c)
  /\ [][(\E c \in ConnIds : conns[c].state = "free" /\ conns'[c].state # "free")
          => UNCHANGED << Poll, Question, nextQid, clock, rowLock >>]_vars

\* one request was rejected for its unknown room although its name matches
\* the pattern, and an accepted connection has been sent its replay
C11_Witness ==
  /\ \E c \in ConnIds :
       conns[c].state = "rejected" /\ MatchesRoomPath(conns[c].name)
  /\ \E c \in ConnIds : conns[c].state = "open" /\ inbox[c] # <<>>

\* the channel name carries a non-empty role suffix
HasRoleSuffix(name) == Len(name) >= 3 /\ name[3] # ""
\* the client events the sockets had no listener for
Dropped == EventsOf("Unhandled")

\* C12: a bound connection is an administrator exactly when its channel name
\* has a non-empty role suffix; an administrator event is handled on
\* administrator connections only and PollResponse on viewer connections
\* only; an event sent on a connection of the other role changes neither the
\* store nor any connection's deliveries, acknowledgments or handlers in
\* flight; QuestionAsk and QuestionUpvote are never dropped on a bound
\* connection of either role.
C12_HandlersFollowRole ==
  /\ [](/\ \A c \in ConnIds :
            conns[c].state = "open" => (IsAdmin(c) <=> HasRoleSuffix(conns[c].name))
        /\ \A e \in Handled :
            /\ events[e].kind \in AdminEvents => HasRoleSuffix(conns[events[e].conn].name)
            /\ events[e].kind \in ViewerEvents => ~HasRoleSuffix(conns[events[e].conn].name))
  /\ [][Len(events') > Len(events) /\ events'[Len(events')].kind = "Unhandled"
          => /\ UNCHANGED << Poll, Question, nextQid, inbox, tasks, acks >>
             /\ events'[Len(events')].arg.type \in SharedEvents
                  => conns[events'[Len(events')].conn].state # "open"]_vars

\* a viewer connection was sent an administrator event and an administrator
\* connection a PollResponse, both bound, and both events were dropped
C12_Witness ==
  /\ \E e \in Dropped :
       /\ events[e].arg.type \in AdminEvents
       /\ conns[events[e].conn].state = "open" /\ ~IsAdmin(events[e].conn)
  /\ \E e \in Dropped :
       /\ events[e].arg.type = "PollResponse"
       /\ conns[events[e].conn].state = "open" /\ IsAdmin(events[e].conn)

\* the QuestionNew events a QuestionApprove caused, as connection c got them
ApprovalsSeen(c) ==
  { i \in 1..Len(inbox[c]) :
      inbox[c][i].type = "QuestionNew" /\ inbox[c][i].eid \in EventsOf("QuestionApprove") }

\* C13: a QuestionApprove of a question that is already approved leaves the
\* Question table as it was, and no viewer connection is sent the same
\* question content by two approvals.
C13_ApproveIdempotent ==
  /\ [](\A c \in ConnIds :
          ~AdminName(conns[c].name)
            => \A i, j \in ApprovalsSeen(c) :
                 i # j => inbox[c][i].payload # inbox[c][j].payload)
  /\ [][(/\ Len(events') > Len(events)
         /\ events'[Len(events')].kind = "QuestionApprove"
         /\ \E q \in Question :
              q.id = events'[Len(events')].arg.questionId /\ q.approved)
          => Question' = Question]_vars

\* the QuestionAsk event that inserted the question of this id
AskOf(id) ==
  CHOOSE e \in EventsOf("QuestionAsk") :
    Cardinality({ x \in EventsOf("QuestionAsk") : x <= e }) = id
\* the later events of a kind that name the question
LaterOn(kind, q) ==
  { e \in EventsOf(kind) : events[e].arg.questionId = q.id /\ e > AskOf(q.id) }

\* C14: every stored question belongs to the room of the connection that
\* asked it, is unapproved unless a later QuestionApprove named it, and has
\* one vote per later QuestionUpvote that named it (so none when inserted);
\* a QuestionAsk whose handler has ended was acknowledged with success, its
\* QuestionNew reached the connections of the room's administrator namespace
\* and no viewer connection.
C14_AskInsertsPendingQuestion ==
  /\ \A q \in Question :
       /\ q.roomId = conns[events[AskOf(q.id)].conn].roomId
       /\ q.approved => LaterOn("QuestionApprove", q) # {}
       /\ q.votes = Cardinality(LaterOn("QuestionUpvote", q))
  /\ \A e \in EventsOf("QuestionAsk") :
       Done(e) => /\ Len(acks[e]) = 1 /\ acks[e][1].kind = "true"
                  /\ \A c \in ConnIds :
                       Count(c, "QuestionNew", e) =
                         IF /\ c \in events[e].present
                            /\ conns[c].name = <<"rooms", RoomOf(e), "admin">>
                         THEN 1 ELSE 0

\* the vote count a question was inserted with
InitialVotes(id) ==
  LET data == events[AskOf(id)].arg
  IN  IF "votes" \in data.fields THEN data.votes ELSE 0
\* the QuestionUpvote handlers in flight that updated question q
UpvotesInFlight(q) ==
  { t \in tasks : t.kind = "QuestionUpvote" /\ t.arg.questionId = q.id /\ t.local.rows # {} }

\* C15: the stored vote count of a question is the count it was inserted
\* with plus the number of QuestionUpvote events that named it since,
\* however their handlers interleave, and no step lowers a vote count.
C15_UpvotesAllCounted ==
  /\ [](\A q \in Question :
          q.votes = InitialVotes(q.id) + Cardinality(LaterOn("QuestionUpvote", q)))
  /\ [][\A q \in Question : \A r \in Question' :
          r.id = q.id => r.votes >= q.votes]_vars

\* two upvotes of one question are in flight together and both are counted
C15_Witness ==
  \E q \in Question :
    /\ Cardinality(UpvotesInFlight(q)) = 2
    /\ q.votes = InitialVotes(q.id) + 2

\* the replay queries of connection c still in flight
ReplaysInFlight(c) == { t \in tasks : t.eid = 0 /\ t.conn = c }
\* the replay events of a type connection c has been sent
ReplaySeen(c, type) ==
  { i \in 1..Len(inbox[c]) : inbox[c][i].type = type /\ inbox[c][i].eid = 0 }

\* C16: each replay query of a connection runs once: the question list is
\* sent exactly once and a PollStart at most once; no event of a client is
\* handled while a replay of its connection has still to be emitted.
C16_ReplayBeforeClientEvents ==
  /\ \A c \in ConnIds :
       conns[c].state = "open"
         => /\ Cardinality(ReplaySeen(c, "PollStart")) <= 1
            /\ Cardinality(ReplaySeen(c, "QuestionNew")) =
                 IF \E t \in ReplaysInFlight(c) : t.kind = "QuestionReplay" THEN 0 ELSE 1
  /\ \A e \in Handled :
       events[e].kind # "Unhandled" => ReplaysInFlight(events[e].conn) = {}

\* C17: in the order of its deliveries, no connection gets the replay
\* PollStart of a poll after the PollEnd broadcast of the event that ended
\* that poll, nor a replayed question list holding a question after the
\* QuestionClear broadcast of the event that deleted it.
C17_ReplayNeverStale ==
  \A c \in ConnIds : \A i, j \in 1..Len(inbox[c]) :
    i < j =>
      /\ ~(/\ inbox[c][i].type = "PollEnd"
            /\ inbox[c][j].type = "PollStart" /\ inbox[c][j].eid = 0
            /\ events[inbox[c][i].eid].arg.rows = 1
            /\ events[inbox[c][i].eid].arg.pollId = inbox[c][j].payload.id)
      /\ ~(/\ inbox[c][i].type = "QuestionClear"
            /\ inbox[c][j].type = "QuestionNew" /\ inbox[c][j].eid = 0
            /\ \E q \in inbox[c][j].payload : AskOf(q.id) < inbox[c][i].eid)

\* the room of the connection that sent event e, as bound
BoundRoom(e) == conns[events[e].conn].roomId
\* the question of an id, if stored
Stored(id) == { q \in Question : q.id = id }

\* C19: a handled event touches only its sender's room: the poll a PollEnd
\* ended, a PollReveal read or a PollResponse wrote, the question a
\* QuestionApprove or QuestionUpvote updated, and the question a QuestionAsk
\* inserted, belong to the room the sending connection is bound to.
C19_RoomsIsolated ==
  \A e \in Handled :
    /\ events[e].kind = "PollEnd" /\ events[e].arg.rows = 1
         => Poll[events[e].arg.pollId].roomId = BoundRoom(e)
    /\ events[e].kind = "PollReveal" /\ events[e].arg.pollId \in 1..Len(Poll)
         => Poll[events[e].arg.pollId].roomId = BoundRoom(e)
    /\ events[e].kind = "PollResponse" /\ outcome[e] = "committed"
         => Poll[events[e].arg.id].roomId = BoundRoom(e)
    /\ events[e].kind \in {"QuestionApprove", "QuestionUpvote"}
         => \A q \in Stored(events[e].arg.questionId) :
              AskOf(q.id) < e => q.roomId = BoundRoom(e)
    /\ events[e].kind = "QuestionAsk"
         => \A q \in Question : AskOf(q.id) = e => q.roomId = BoundRoom(e)

\* the PollResponse events whose sender has gone
Orphaned == { e \in EventsOf("PollResponse") : conns[events[e].conn].state = "closed" }
\* the connections of the room's administrator namespace that have been
\* connected since event e was handled
StayedAdmins(e) ==
  { c \in events[e].present :
      /\ conns[c].state \in {"lookup", "open"}
      /\ conns[c].name = <<"rooms", RoomOf(e), "admin">> }

\* C18: a PollResponse whose sender has disconnected still runs to its end,
\* committed or failed; when it committed, its tally is the stored one's
\* source and every connection that stayed in the room's administrator
\* namespace has received its PollResults; a disconnect step changes neither
\* the store nor the handlers in flight nor the row locks.
C18_DisconnectDoesNotAbort ==
  /\ [](\A e \in Orphaned :
          /\ Done(e) => outcome[e] \in {"committed", "failed"}
          /\ outcome[e] = "committed"
               => /\ \E i \in 1..Len(commitLog) : commitLog[i].eid = e
                  /\ \A c \in StayedAdmins(e) : Count(c, "PollResults", e) = 1)
  /\ [][(\E c \in ConnIds : conns[c].state # "closed" /\ conns'[c].state = "closed")
          => UNCHANGED << Poll, Question, nextQid, clock, rowLock, tasks, inbox >>]_vars

\* a viewer left before its response's transaction reached the broadcast
\* (its acknowledgment found no socket); the transaction committed, changed
\* the tally, and the administrator that stayed got the results
C18_Witness ==
  \E e \in Orphaned :
    /\ outcome[e] = "committed" /\ acks[e] = <<>>
    /\ Poll[events[e].arg.id].values # ZeroValues
    /\ StayedAdmins(e) # {}
    /\ \A c \in StayedAdmins(e) : Count(c, "PollResults", e) = 1

\* C20: every stored tally has exactly the labels A to E as its keys and a
\* number under each; the tally of a poll no response has committed to is
\* all zero.
C20_TallyKeepsItsLabels ==
  \A p \in 1..Len(Poll) :
    /\ DOMAIN Poll[p].values = Labels
    /\ \A k \in DOMAIN Poll[p].values : Poll[p].values[k].t = "number"
    /\ CommittedTo(p) = {} => Poll[p].values = ZeroValues

====
